---- MODULE Spec2Model ----
(***************************************************************************)
(* The Cassandra storage adapter (package cassandra): construction with    *)
(* identifier validation and schema bootstrap, and the Set / Get / Delete  *)
(* / Reset / Close operations over one gocql session, with the stored      *)
(* expires_at column and the native "USING TTL" directive.                 *)
(*                                                                         *)
(* Time is counted in clock ticks; a time.Duration is a number of ticks    *)
(* and one second is UnitsPerSec ticks, so that durations that are not a   *)
(* whole number of seconds exist in the model.                             *)
(***************************************************************************)
EXTENDS Integers, Sequences, FiniteSets, TLC

\* ------------------------------------------------------------------ bounds
MaxTime == 2
MaxExp == 3
MaxStores == 1
MaxIdLen == 2
MaxBoots == 2

\* time.Second, in clock ticks
UnitsPerSec == 2

Keys == {"k1", "k2"}
Values == {"v1", "v2"}
Nil == "nil"
NoTime == -1

\* the durations a caller passes to Set and to Config.Expiration
Durations == -1 .. MaxExp

\* ------------------------------------------------------------ identifiers
\* A name is a sequence of code points.
Alphabet == {97, 90, 55, 95, 32, 45, 39, 233}

RECURSIVE NamesUpTo(_)
NamesUpTo(n) ==
    IF n = 0 THEN {<<>>}
    ELSE LET shorter == NamesUpTo(n - 1)
         IN shorter \cup {Append(s, c) : s \in {t \in shorter : Len(t) = n - 1}, c \in Alphabet}

AllNames == NamesUpTo(MaxIdLen)

\* the keyspace and table names of the default configuration, and malformed ones
KsName == <<97, 95>>
TableName == <<90, 55>>
BadNames == {<<>>, <<97, 32>>, <<45>>, <<39, 97>>}

\* identifierPattern: one character of the class [a-zA-Z0-9_]
identifierChar(c) ==
    \/ c >= 97 /\ c <= 122
    \/ c >= 65 /\ c <= 90
    \/ c >= 48 /\ c <= 57
    \/ c = 95

\* the pattern without its anchors: some character of the class occurs
identifierPattern_unanchored(name) ==
    \E i \in 1 .. Len(name) : identifierChar(name[i])

\* identifierPattern.MatchString: ^ class+ $ over the whole text
RECURSIVE classPlus(_, _)
classPlus(name, i) ==
    IF i > Len(name) THEN FALSE
    ELSE /\ identifierChar(name[i])
         /\ (i = Len(name) \/ classPlus(name, i + 1))

identifierPattern(name) == classPlus(name, 1)

\* validateIdentifier: the error it returns ("nil" when the name is accepted)
validateIdentifier(name, field) ==
    IF ~identifierPattern(name) THEN "invalid " \o field \o " name" ELSE "nil"

\* ------------------------------------------------------------------ state
VARIABLES
    now,        \* time.Now()
    keyspaces,  \* the keyspaces of the cluster (system_schema.keyspaces)
    tables,     \* <<keyspace, table>> -> the data table: exists, rows
    stores,     \* the Storage handles New has returned
    hist,       \* per table and key: the last Set / Delete / Reset / drop of it
    last,       \* the call that has just returned, and what it returned
    inflight    \* a Get between its SELECT and its cleanup DELETE

vars == <<now, keyspaces, tables, stores, hist, last, inflight>>

AbsentRow == [present |-> FALSE, value |-> Nil, expires_at |-> NoTime, ttl_at |-> NoTime]
EmptyRows == [k \in Keys |-> AbsentRow]

NoHist ==
    [kind |-> "never", value |-> Nil, exp |-> 0, at |-> NoTime, h |-> 0, over |-> NoTime]
EmptyHist == [k \in Keys |-> NoHist]

NoCall ==
    [op |-> "none", h |-> 0, key |-> Nil, value |-> Nil, err |-> "nil",
     found |-> "none", cleanup |-> "none", listed |-> {}, keyspace |-> <<>>, table |-> <<>>,
     opened |-> 0, closed |-> 0, queries |-> 0, handle |-> 0,
     reset |-> FALSE, failAt |-> "none"]

\* no Get is between its two queries
NoGet == [pc |-> "idle", h |-> 0, key |-> Nil, row |-> AbsentRow]

Init ==
    /\ now = 0
    /\ keyspaces = {}
    /\ tables = << >>
    /\ stores = << >>
    /\ hist = << >>
    /\ last = NoCall
    /\ inflight = NoGet

\* ------------------------------------------------------------------ clock
Tick ==
    /\ now < MaxTime
    /\ now' = now + 1
    /\ last' = NoCall
    /\ UNCHANGED <<keyspaces, tables, stores, hist, inflight>>

\* ----------------------------------------------------------- construction
\* the steps of New at which the backend can report an error
FailPoints ==
    {"none", "system", "count", "createKeyspace", "connect",
     "dropData", "dropInfo", "createTable"}

\* New, lines 86-93: Config.Expiration converted to whole seconds
defaultTTL(expiration) ==
    IF expiration > 0 THEN expiration \div UnitsPerSec ELSE 0

\* CREATE KEYSPACE issued without the existence check: the cluster refuses to
\* create a keyspace it already has
ensureKeyspace_createAlways(keyspace, kss, failAt) ==
    IF failAt = "createKeyspace" \/ keyspace \in kss
    THEN [err |-> "backend", keyspaces |-> kss, queries |-> 1]
    ELSE [err |-> "nil", keyspaces |-> kss \cup {keyspace}, queries |-> 1]

\* ensureKeyspace: SELECT COUNT(*) on system_schema.keyspaces, then CREATE KEYSPACE
ensureKeyspace(keyspace, kss, failAt) ==
    IF failAt = "count"
    THEN [err |-> "backend", keyspaces |-> kss, queries |-> 1]
    ELSE IF keyspace \notin kss
    THEN IF failAt = "createKeyspace"
         THEN [err |-> "backend", keyspaces |-> kss, queries |-> 2]
         ELSE [err |-> "nil", keyspaces |-> kss \cup {keyspace}, queries |-> 2]
    ELSE [err |-> "nil", keyspaces |-> kss, queries |-> 1]

DroppedHist == [k \in Keys |-> [NoHist EXCEPT !.kind = "dropped"]]

\* dropTables: DROP TABLE IF EXISTS on the data table, then on schema_info
dropTables(id, tbls, hst, failAt) ==
    IF failAt = "dropData"
    THEN [err |-> "backend", tables |-> tbls, hist |-> hst, queries |-> 1]
    ELSE LET t2 == [t \in DOMAIN tbls \ {id} |-> tbls[t]]
             h2 == [t \in DOMAIN hst |-> IF t = id /\ id \in DOMAIN tbls
                                          THEN DroppedHist ELSE hst[t]]
         IN [err |-> IF failAt = "dropInfo" THEN "backend" ELSE "nil",
             tables |-> t2, hist |-> h2, queries |-> 2]

\* the error of the CREATE TABLE query dropped instead of returned
createDataTable_errorDropped(id, tbls, hst, failAt) ==
    IF failAt = "createTable"
    THEN [err |-> "nil", tables |-> tbls, hist |-> hst, queries |-> 1]
    ELSE [err |-> "nil",
          tables |-> IF id \in DOMAIN tbls THEN tbls ELSE (id :> EmptyRows) @@ tbls,
          hist |-> IF id \in DOMAIN hst THEN hst ELSE (id :> EmptyHist) @@ hst,
          queries |-> 1]

\* createDataTable: CREATE TABLE IF NOT EXISTS (key, value, expires_at)
createDataTable(id, tbls, hst, failAt) ==
    IF failAt = "createTable"
    THEN [err |-> "backend", tables |-> tbls, hist |-> hst, queries |-> 1]
    ELSE [err |-> "nil",
          tables |-> IF id \in DOMAIN tbls THEN tbls ELSE (id :> EmptyRows) @@ tbls,
          hist |-> IF id \in DOMAIN hst THEN hst ELSE (id :> EmptyHist) @@ hst,
          queries |-> 1]

\* createOrVerifyKeySpace: what it returns, what it leaves in the cluster, and the
\* sessions it created and closed (the deferred systemSession.Close() included)
createOrVerifyKeySpace(keyspace, table, reset, failAt, kss, tbls, hst) ==
    LET id == <<keyspace, table>>
        base == [err |-> "nil", keyspaces |-> kss, tables |-> tbls, hist |-> hst,
                 opened |-> 0, closed |-> 0, queries |-> 0, session |-> FALSE]
    IN IF failAt = "system"
       THEN [base EXCEPT !.err = "failed to connect to system keyspace"]
       ELSE LET ek == ensureKeyspace(keyspace, kss, failAt)
                afterEnsure == [base EXCEPT !.keyspaces = ek.keyspaces,
                                            !.opened = 1, !.closed = 1,
                                            !.queries = ek.queries]
            IN IF ek.err # "nil"
               THEN [afterEnsure EXCEPT !.err = "failed to ensure keyspace exists"]
               ELSE IF failAt = "connect"
               THEN [afterEnsure EXCEPT !.err = "failed to connect to keyspace"]
               ELSE LET scoped == [afterEnsure EXCEPT !.opened = 2, !.session = TRUE]
                        dt == IF reset THEN dropTables(id, tbls, hst, failAt)
                              ELSE [err |-> "nil", tables |-> tbls, hist |-> hst,
                                    queries |-> 0]
                        afterDrop == [scoped EXCEPT !.tables = dt.tables,
                                                    !.hist = dt.hist,
                                                    !.queries = @ + dt.queries]
                    IN IF dt.err # "nil"
                       THEN [afterDrop EXCEPT !.err = dt.err]
                       ELSE LET ct == createDataTable(id, dt.tables, dt.hist, failAt)
                            IN [afterDrop EXCEPT !.err = ct.err,
                                                 !.tables = ct.tables,
                                                 !.hist = ct.hist,
                                                 !.queries = @ + ct.queries]

\* New: validation, default TTL, bootstrap; a handle only when every step succeeded
New(keyspace, table, expiration, reset, failAt) ==
    /\ LET e1 == validateIdentifier(keyspace, "keyspace")
           e2 == validateIdentifier(table, "table")
           call == [NoCall EXCEPT !.op = "New",
                                  !.keyspace = keyspace, !.table = table,
                                  !.reset = reset, !.failAt = failAt]
       IN IF e1 # "nil"
          THEN /\ last' = [call EXCEPT !.err = e1]
               /\ UNCHANGED <<keyspaces, tables, stores, hist>>
          ELSE IF e2 # "nil"
          THEN /\ last' = [call EXCEPT !.err = e2]
               /\ UNCHANGED <<keyspaces, tables, stores, hist>>
          ELSE LET r == createOrVerifyKeySpace(keyspace, table, reset, failAt,
                                               keyspaces, tables, hist)
                   storage == [keyspace |-> keyspace, table |-> table,
                               ttl |-> defaultTTL(expiration), state |-> "Ready",
                               expiration |-> expiration]
               IN /\ keyspaces' = r.keyspaces
                  /\ tables' = r.tables
                  /\ hist' = r.hist
                  /\ IF r.err # "nil"
                     THEN /\ stores' = stores
                          /\ last' = [call EXCEPT !.err = "cassandra storage init",
                                                  !.opened = r.opened,
                                                  !.closed = r.closed,
                                                  !.queries = r.queries]
                     ELSE /\ stores' = Append(stores, storage)
                          /\ last' = [call EXCEPT !.opened = r.opened,
                                                  !.closed = r.closed,
                                                  !.queries = r.queries,
                                                  !.handle = Len(stores) + 1]
    /\ UNCHANGED <<now, inflight>>

\* the configurations callers construct stores with
NamePairs ==
    {<<KsName, TableName>>, <<<<45>>, <<39, 97>>>>}
        \cup {<<b, TableName>> : b \in BadNames}
        \cup {<<KsName, b>> : b \in BadNames}

NewStore ==
    /\ Len(stores) < MaxStores
    /\ \E names \in NamePairs, expiration \in Durations, reset \in BOOLEAN,
          failAt \in FailPoints :
           New(names[1], names[2], expiration, reset, failAt)

\* ------------------------------------------------------------- operations
TableOf(s) == <<s.keyspace, s.table>>

\* a session that goes on answering queries after Close
Exec_afterClose(s, ok) ==
    IF TableOf(s) \notin DOMAIN tables THEN "unconfigured table"
    ELSE IF ~ok THEN "unavailable"
    ELSE "nil"

\* s.session.Query(...).Exec() / .Scan(): the error of a query on the data table
\* ("nil" when the backend answers it): the session is closed, the table has been
\* dropped, or the backend fails the query
Exec(s, ok) ==
    IF s.state # "Ready" THEN "session closed"
    ELSE IF TableOf(s) \notin DOMAIN tables THEN "unconfigured table"
    ELSE IF ~ok THEN "unavailable"
    ELSE "nil"

\* the default TTL taken whenever the store has one, the call's own TTL ignored
SetExpiry_defaultFirst(exp, sttl, t) ==
    IF sttl > 0
    THEN [ttl |-> sttl, expiresAt |-> t + sttl * UnitsPerSec]
    ELSE IF exp > 0
    THEN [ttl |-> exp \div UnitsPerSec, expiresAt |-> t + exp]
    ELSE [ttl |-> 0, expiresAt |-> NoTime]

\* the default branch taken without the test that the store has a default
SetExpiry_noGuard(exp, sttl, t) ==
    IF exp > 0
    THEN [ttl |-> exp \div UnitsPerSec, expiresAt |-> t + exp]
    ELSE IF exp = 0
    THEN [ttl |-> sttl, expiresAt |-> t + sttl * UnitsPerSec]
    ELSE [ttl |-> 0, expiresAt |-> NoTime]

\* the default taken for every TTL that is not positive, a negative one included
SetExpiry_negativeAsZero(exp, sttl, t) ==
    IF exp > 0
    THEN [ttl |-> exp \div UnitsPerSec, expiresAt |-> t + exp]
    ELSE IF sttl > 0
    THEN [ttl |-> sttl, expiresAt |-> t + sttl * UnitsPerSec]
    ELSE [ttl |-> 0, expiresAt |-> NoTime]

\* Set, lines 207-221: the TTL in seconds and the expiry instant
SetExpiry(exp, sttl, t) ==
    IF exp > 0
    THEN [ttl |-> exp \div UnitsPerSec, expiresAt |-> t + exp]
    ELSE IF exp = 0 /\ sttl > 0
    THEN [ttl |-> sttl, expiresAt |-> t + sttl * UnitsPerSec]
    ELSE [ttl |-> 0, expiresAt |-> NoTime]

\* Set, lines 224-234: the record the INSERT writes, USING TTL when ttl > 0
InsertRow(value, e, t) ==
    [present |-> TRUE, value |-> value, expires_at |-> e.expiresAt,
     ttl_at |-> IF e.ttl > 0 THEN t + e.ttl * UnitsPerSec ELSE NoTime]

\* the call asks for an expiry: a positive TTL, or TTL 0 on a store constructed
\* with a positive Config.Expiration (hist keeps the instant of such a Set)
Expiring(exp, expiration) == exp > 0 \/ (exp = 0 /\ expiration > 0)

\* an INSERT that leaves the TTL of the record it overwrites in force
Upsert_ttlKept(old, new) ==
    IF new.ttl_at = NoTime THEN [new EXCEPT !.ttl_at = old.ttl_at] ELSE new

\* INSERT on a key that has a record: value, expires_at and TTL are all written
\* anew, nothing of the old record is kept
Upsert(old, new) == new

\* Set; over is what the history of the key keeps of the record overwritten
SetAs(h, key, value, exp, ok, over) ==
    LET s == stores[h]
        id == TableOf(s)
        e == SetExpiry(exp, s.ttl, now)
        call == [NoCall EXCEPT !.op = "Set", !.h = h, !.key = key]
    IN /\ IF Exec(s, ok) = "nil"
          THEN /\ tables' = [tables EXCEPT ![id][key] = Upsert(@, InsertRow(value, e, now))]
               /\ hist' = [hist EXCEPT ![id][key] =
                              [kind |-> "set", value |-> value, exp |-> exp,
                               at |-> IF Expiring(exp, s.expiration) THEN now ELSE NoTime,
                               h |-> h, over |-> over]]
               /\ last' = call
          ELSE /\ last' = [call EXCEPT !.err = Exec(s, ok)]
               /\ UNCHANGED <<tables, hist>>
       /\ UNCHANGED <<now, keyspaces, stores, inflight>>

Set(h, key, value, exp, ok) == SetAs(h, key, value, exp, ok, NoTime)

\* Set, with the expires_at of the record it overwrites kept in the history
\* when the Set itself asks for no expiry
SetOver(h, key, value, exp) ==
    /\ Exec(stores[h], TRUE) = "nil"
    /\ SetAs(h, key, value, exp, TRUE,
             IF Expiring(exp, stores[h].expiration) THEN NoTime
             ELSE tables[TableOf(stores[h])][key].expires_at)

\* the expiry test without IsZero: a record with no expires_at counts as expired
Expired_noZeroCheck(row, t) == row.expires_at < t

\* the expiry test with After in the place of Before
Expired_after(row, t) == row.expires_at # NoTime /\ row.expires_at > t

\* Get, line 251: the record's expires_at is set and before time.Now()
Expired(row, t) == row.expires_at # NoTime /\ row.expires_at < t

\* a DELETE without its WHERE clause
DeleteRow_everyKey(tbls, id, key) == [tbls EXCEPT ![id] = EmptyRows]

\* a DELETE that matches no record
DeleteRow_noMatch(tbls, id, key) == tbls

\* Delete, lines 264-267: the table after DELETE ... WHERE key = ?
DeleteRow(tbls, id, key) == [tbls EXCEPT ![id][key] = AbsentRow]

\* what a call found under its key: no record, an expired one, a live one
Found(row, t) ==
    IF ~row.present THEN "absent" ELSE IF Expired(row, t) THEN "expired" ELSE "live"

Delete(h, key, ok) ==
    LET s == stores[h]
        id == TableOf(s)
        call == [NoCall EXCEPT !.op = "Delete", !.h = h, !.key = key]
    IN /\ IF Exec(s, ok) = "nil"
          THEN /\ tables' = DeleteRow(tables, id, key)
               /\ hist' = [hist EXCEPT ![id][key] = [NoHist EXCEPT !.kind = "deleted"]]
               /\ last' = [call EXCEPT !.found = Found(tables[id][key], now)]
          ELSE /\ last' = [call EXCEPT !.err = Exec(s, ok)]
               /\ UNCHANGED <<tables, hist>>
       /\ UNCHANGED <<now, keyspaces, stores, inflight>>

\* a Get that returns the error of its cleanup Delete
GetResult_cleanupReturned(s, key, readOk, delOk, tbls, t) ==
    LET id == TableOf(s)
        none == [value |-> Nil, err |-> "nil", found |-> "none", cleanup |-> "none",
                 tables |-> tbls]
    IN IF Exec(s, readOk) # "nil"
       THEN [none EXCEPT !.err = Exec(s, readOk)]
       ELSE LET row == tbls[id][key]
            IN IF ~row.present
               THEN [none EXCEPT !.found = "absent"]
               ELSE IF Expired(row, t)
               THEN IF Exec(s, delOk) = "nil"
                    THEN [none EXCEPT !.found = "expired", !.cleanup = "ok",
                                      !.tables = DeleteRow(tbls, id, key)]
                    ELSE [none EXCEPT !.found = "expired", !.cleanup = "failed",
                                      !.err = Exec(s, delOk)]
               ELSE [none EXCEPT !.found = "live", !.value = row.value]

\* Get, lines 238-261: what it returns and the table it leaves
GetResult(s, key, readOk, delOk, tbls, t) ==
    LET id == TableOf(s)
        none == [value |-> Nil, err |-> "nil", found |-> "none", cleanup |-> "none",
                 tables |-> tbls]
    IN IF Exec(s, readOk) # "nil"
       THEN [none EXCEPT !.err = Exec(s, readOk)]
       ELSE LET row == tbls[id][key]
            IN IF ~row.present
               THEN [none EXCEPT !.found = "absent"]
               ELSE IF Expired(row, t)
               THEN IF Exec(s, delOk) = "nil"
                    THEN [none EXCEPT !.found = "expired", !.cleanup = "ok",
                                      !.tables = DeleteRow(tbls, id, key)]
                    ELSE [none EXCEPT !.found = "expired", !.cleanup = "failed"]
               ELSE [none EXCEPT !.found = "live", !.value = row.value]

Get(h, key, readOk, delOk) ==
    LET r == GetResult(stores[h], key, readOk, delOk, tables, now)
    IN /\ tables' = r.tables
       /\ last' = [NoCall EXCEPT !.op = "Get", !.h = h, !.key = key,
                                 !.value = r.value, !.err = r.err,
                                 !.found = r.found,
                                 !.cleanup = r.cleanup]
       /\ UNCHANGED <<now, keyspaces, stores, hist, inflight>>

\* DROP TABLE in the place of TRUNCATE TABLE
TruncateTable_drop(tbls, id) == [t \in DOMAIN tbls \ {id} |-> tbls[t]]

\* Reset, lines 270-273: the table after TRUNCATE TABLE
TruncateTable(tbls, id) == [tbls EXCEPT ![id] = EmptyRows]

Reset(h, ok) ==
    LET s == stores[h]
        id == TableOf(s)
        call == [NoCall EXCEPT !.op = "Reset", !.h = h]
    IN /\ IF Exec(s, ok) = "nil"
          THEN /\ tables' = TruncateTable(tables, id)
               /\ hist' = [hist EXCEPT ![id] =
                              [k \in Keys |-> [NoHist EXCEPT !.kind = "reset"]]]
               /\ last' = [call EXCEPT !.found =
                              IF \E k \in Keys : tables[id][k].present
                              THEN "live" ELSE "absent"]
          ELSE /\ last' = [call EXCEPT !.err = Exec(s, ok)]
               /\ UNCHANGED <<tables, hist>>
       /\ UNCHANGED <<now, keyspaces, stores, inflight>>

\* Close, lines 281-285
Close(h) ==
    /\ stores' = [stores EXCEPT ![h].state = "Closed"]
    /\ last' = [NoCall EXCEPT !.op = "Close", !.h = h]
    /\ UNCHANGED <<now, keyspaces, tables, hist, inflight>>

\* a List without the expiry filter
LiveKeys_unfiltered(rows, t) == {k \in Keys : rows[k].present}

\* List: the keys of the live entries (the lazy-expiry filter of Get, no deletes)
LiveKeys(rows, t) == {k \in Keys : rows[k].present /\ ~Expired(rows[k], t)}

List(h, ok) ==
    LET s == stores[h]
        call == [NoCall EXCEPT !.op = "List", !.h = h]
    IN /\ IF Exec(s, ok) = "nil"
          THEN last' = [call EXCEPT !.listed = LiveKeys(tables[TableOf(s)], now)]
          ELSE last' = [call EXCEPT !.err = Exec(s, ok)]
       /\ UNCHANGED <<now, keyspaces, tables, stores, hist, inflight>>

\* the backend's native TTL: a record written USING TTL n is removed by the
\* backend at some moment from n seconds after the write on
NativeReap(id, key) ==
    /\ id \in DOMAIN tables
    /\ tables[id][key].present
    /\ tables[id][key].ttl_at # NoTime
    /\ tables[id][key].ttl_at <= now
    /\ tables' = DeleteRow(tables, id, key)
    /\ last' = NoCall
    /\ UNCHANGED <<now, keyspaces, stores, hist, inflight>>

Handles == 1 .. Len(stores)

\* a call the backend fails is tried with one value and one duration only: what
\* it was asked to write does not reach the state
SetCall == \E h \in Handles, key \in Keys, ok \in BOOLEAN :
              \E value \in IF ok THEN Values ELSE {"v1"},
                 exp \in IF ok THEN Durations ELSE {0} : Set(h, key, value, exp, ok)
GetCall == \E h \in Handles, key \in Keys, readOk \in BOOLEAN :
              \E delOk \in IF readOk THEN BOOLEAN ELSE {TRUE} :
                 Get(h, key, readOk, delOk)
DeleteCall == \E h \in Handles, key \in Keys, ok \in BOOLEAN : Delete(h, key, ok)
ResetCall == \E h \in Handles, ok \in BOOLEAN : Reset(h, ok)
ListCall == \E h \in Handles, ok \in BOOLEAN : List(h, ok)
CloseCall == \E h \in Handles : Close(h)
Reap == \E id \in DOMAIN tables, key \in Keys : NativeReap(id, key)

Next ==
    \/ Tick
    \/ NewStore
    \/ SetCall
    \/ GetCall
    \/ DeleteCall
    \/ ResetCall
    \/ ListCall
    \/ CloseCall
    \/ Reap

Spec == Init /\ [][Next]_vars

\* construction alone, on a cluster that has no store yet, with the keyspace or
\* the table name drawn from every name of up to MaxIdLen characters
NewNamed ==
    /\ stores = << >>
    /\ \E name \in AllNames, role \in {"keyspace", "table"}, expiration \in {0},
          reset \in {FALSE}, failAt \in {"none", "system"} :
           IF role = "keyspace"
           THEN New(name, TableName, expiration, reset, failAt)
           ELSE New(KsName, name, expiration, reset, failAt)

NextIdent == NewNamed

SpecIdent == Init /\ [][NextIdent]_vars

\* Get as its two queries, for callers that share the store: the SELECT with the
\* expiry test (lines 242-251); a Get that found no record, a live one or an
\* error returns at once, one that found an expired record goes on to its Delete
GetSelect(h, key, readOk) ==
    LET r == GetResult(stores[h], key, readOk, TRUE, tables, now)
    IN /\ inflight.pc = "idle"
       /\ IF r.found = "expired"
          THEN /\ inflight' = [pc |-> "cleanup", h |-> h, key |-> key,
                               row |-> tables[TableOf(stores[h])][key]]
               /\ last' = NoCall
          ELSE /\ inflight' = inflight
               /\ last' = [NoCall EXCEPT !.op = "Get", !.h = h, !.key = key,
                                         !.value = r.value, !.err = r.err,
                                         !.found = r.found]
       /\ UNCHANGED <<now, keyspaces, tables, stores, hist>>

\* the cleanup of that Get (lines 253-257): DELETE ... WHERE key = ?, whatever is
\* under the key by now, then return nil, nil
GetCleanup(delOk) ==
    LET s == stores[inflight.h]
        worked == Exec(s, delOk) = "nil"
    IN /\ inflight.pc = "cleanup"
       /\ tables' = IF worked THEN DeleteRow(tables, TableOf(s), inflight.key) ELSE tables
       /\ last' = [NoCall EXCEPT !.op = "Get", !.h = inflight.h, !.key = inflight.key,
                                 !.found = "expired",
                                 !.cleanup = IF worked THEN "ok" ELSE "failed"]
       /\ inflight' = NoGet
       /\ UNCHANGED <<now, keyspaces, stores, hist>>

GetSelectCall == \E h \in Handles, key \in Keys, readOk \in BOOLEAN : GetSelect(h, key, readOk)
GetCleanupCall == \E delOk \in BOOLEAN : GetCleanup(delOk)

NextConc ==
    \/ Tick
    \/ NewStore
    \/ SetCall
    \/ GetSelectCall
    \/ GetCleanupCall

SpecConc == Init /\ [][NextConc]_vars

\* the writes and reads the backend answers, of entries that do not expire
SetPlain == \E h \in Handles, key \in Keys, value \in Values : Set(h, key, value, 0, TRUE)
GetPlain == \E h \in Handles, key \in Keys : Get(h, key, TRUE, TRUE)

\* overwriting: Sets that the backend answers, each keeping in the history the
\* expiry of the record it replaced, with time passing and native reaping
SetOverCall == \E h \in Handles, key \in Keys, value \in Values, exp \in Durations :
                  SetOver(h, key, value, exp)

NextLWW ==
    \/ Tick
    \/ NewStore
    \/ SetOverCall
    \/ GetPlain
    \/ Reap

SpecLWW == Init /\ [][NextLWW]_vars

\* construction repeated on one cluster: up to MaxBoots stores of one keyspace,
\* on the default table or a second one, with writes and reads in between
OtherTable == <<97>>

NewAgain ==
    /\ Len(stores) < MaxBoots
    /\ \E table \in {TableName, OtherTable}, expiration \in {0}, reset \in BOOLEAN,
          failAt \in FailPoints :
           New(KsName, table, expiration, reset, failAt)

NextBoot ==
    \/ NewAgain
    \/ SetPlain
    \/ GetPlain

SpecBoot == Init /\ [][NextBoot]_vars

\* ----------------------------------------------------------------- claims
\* the call that has just returned: its store, its table, the history of its key
\* and the record now under its key
CallStore == stores[last.h]
CallTable == TableOf(stores[last.h])
CallHist == hist[CallTable][last.key]
CallRow == tables[CallTable][last.key]

\* the backend answered the call's query on the table (a record or "not found")
Answered == last.found # "none"

\* Config.Expiration of the store whose Set wrote the entry
DefaultOf(H) == stores[H.h].expiration

\* C1: round trip. On a Ready store constructed with no default TTL, a Get(k)
\* that the backend answers after Set(k, v, 0), with no Set / Delete / Reset of k
\* in between and after any elapsed time, returns v and a nil error.
C1_RoundTrip ==
    (last.op = "Get" /\ Answered)
        => LET H == CallHist
           IN (H.kind = "set" /\ H.exp = 0 /\ DefaultOf(H) = 0)
                  => (last.value = H.value /\ last.err = "nil")

C1_Witness ==
    /\ last.op = "Get"
    /\ CallHist.kind = "set" /\ CallHist.exp = 0 /\ DefaultOf(CallHist) = 0
    /\ last.value = CallHist.value /\ last.value \in Values
    /\ last.err = "nil"
    /\ now >= 2

\* C2: expired entries are logically absent. Get never returns the value of a
\* record whose stored expires_at is in the past; and once the clock has passed
\* Set-time + ttl of a Set(k, v, ttl) with ttl > 0, Get(k) returns no value, with
\* a nil error whenever the backend answered the read, whether or not the record
\* has been physically removed (and whether or not the cleanup delete worked).
C2_ExpiredAbsent ==
    last.op = "Get"
        => /\ last.value # Nil
                => /\ CallRow.present
                   /\ CallRow.value = last.value
                   /\ (CallRow.expires_at = NoTime \/ CallRow.expires_at >= now)
           /\ (CallHist.kind = "set" /\ CallHist.exp > 0
                   /\ now > CallHist.at + CallHist.exp)
                => (last.value = Nil /\ (Answered => last.err = "nil"))

C2_Witness ==
    /\ last.op = "Get"
    /\ CallHist.kind = "set" /\ CallHist.exp > 0
    /\ now > CallHist.at + CallHist.exp
    /\ last.found = "expired"
    /\ last.value = Nil /\ last.err = "nil"

\* C3: Delete is idempotent. A Delete(k) that reaches the table returns no error
\* whether k has no record (never set, already deleted), an expired record or a
\* live one, the only errors of Delete being those of the session and the backend;
\* and after a successful Delete(k) every answered Get(k) returns no value and a
\* nil error until the next Set of k.
C3_DeleteIdempotent ==
    /\ last.op = "Delete"
           => /\ last.err \in {"nil", "session closed", "unconfigured table", "unavailable"}
              /\ Answered => (last.err = "nil" /\ ~CallRow.present)
              /\ (last.err = "nil") => (Answered /\ CallHist.kind = "deleted")
    /\ (last.op = "Get" /\ Answered /\ CallHist.kind = "deleted")
           => (last.value = Nil /\ last.err = "nil" /\ last.found = "absent")

C3_Witness ==
    /\ last.op = "Delete"
    /\ last.found = "absent"
    /\ last.err = "nil"
    /\ now > 0

\* C4: Reset empties the store without destroying it. After a successful Reset
\* the table still exists and holds no record, the store is still Ready, an
\* answered Get of any key returns no value and an answered List no key; Reset
\* of an empty table succeeds; and a Set(k, v, 0) is readable by a Get(k) at the
\* same instant (in particular one issued after Reset).
C4_ResetEmpties ==
    /\ (last.op = "Reset" /\ last.err = "nil")
           => /\ CallTable \in DOMAIN tables
              /\ \A k \in Keys : ~tables[CallTable][k].present
              /\ CallStore.state = "Ready"
    /\ (last.op = "Reset" /\ last.found # "none") => last.err = "nil"
    /\ (last.op = "Get" /\ Answered /\ CallHist.kind = "reset")
           => (last.value = Nil /\ last.err = "nil")
    /\ (last.op = "List" /\ last.err = "nil"
            /\ \A k \in Keys : hist[CallTable][k].kind = "reset")
           => last.listed = {}
    /\ (last.op = "Get" /\ Answered /\ CallHist.kind = "set" /\ CallHist.exp = 0
            /\ CallHist.at \in {NoTime, now})
           => (last.value = CallHist.value /\ last.err = "nil")

C4_Witness ==
    /\ last.op = "Reset"
    /\ last.found = "live"
    /\ last.err = "nil"
    /\ \A k \in Keys : ~tables[CallTable][k].present

\* C5: List returns exactly the live entries: a successful List returns the keys
\* whose record exists with no expiry or an expiry not yet passed, and no key
\* whose expiry has passed, reaped or not.
C5_ListLive ==
    (last.op = "List" /\ last.err = "nil")
        => last.listed =
               {k \in Keys : /\ tables[CallTable][k].present
                             /\ \/ tables[CallTable][k].expires_at = NoTime
                                \/ tables[CallTable][k].expires_at >= now}

C5_Witness ==
    /\ last.op = "List" /\ last.err = "nil"
    /\ \E k1 \in Keys, k2 \in Keys :
          /\ last.listed = {k1}
          /\ tables[CallTable][k1].expires_at = NoTime
          /\ tables[CallTable][k2].present
          /\ tables[CallTable][k2].expires_at # NoTime
          /\ tables[CallTable][k2].expires_at < now

\* a non-empty sequence of ASCII letters, digits and underscores
AsciiLetters == (65 .. 90) \cup (97 .. 122)
AsciiDigits == 48 .. 57
WellFormed(name) ==
    /\ Len(name) > 0
    /\ \A i \in 1 .. Len(name) : name[i] \in AsciiLetters \cup AsciiDigits \cup {95}

\* C6: identifier validation precedes all backend use. New rejects the keyspace
\* name exactly when it is not a non-empty sequence of ASCII letters, digits and
\* underscores, and likewise the table name; and when either name is rejected New
\* returns an error and no Storage, having created no session and issued no query.
C6_IdentifierFirst ==
    last.op = "New"
        => /\ (last.err = "invalid keyspace name") <=> ~WellFormed(last.keyspace)
           /\ (last.err = "invalid table name")
                  <=> (WellFormed(last.keyspace) /\ ~WellFormed(last.table))
           /\ (~WellFormed(last.keyspace) \/ ~WellFormed(last.table))
                  => /\ last.err # "nil"
                     /\ last.handle = 0
                     /\ last.opened = 0
                     /\ last.queries = 0

C6_Witness ==
    /\ last.op = "New"
    /\ \E i \in 1 .. Len(last.keyspace) : last.keyspace[i] = 45
    /\ last.err = "invalid keyspace name"
    /\ last.handle = 0 /\ last.opened = 0 /\ last.queries = 0

\* C7: a per-call TTL overrides the default. The record written by a
\* Set(k, v, exp) with exp > 0 exists when Set returns and carries the expiry
\* instant Set-time + exp for as long as it exists, whatever the store's default.
C7_PerCallTTL ==
    /\ \A id \in DOMAIN tables, k \in Keys :
          (hist[id][k].kind = "set" /\ hist[id][k].exp > 0 /\ tables[id][k].present)
              => tables[id][k].expires_at = hist[id][k].at + hist[id][k].exp
    /\ (last.op = "Set" /\ last.err = "nil")
          => (CallRow.present /\ CallHist.kind = "set" /\ CallHist.h = last.h)

C7_Witness ==
    /\ last.op = "Set" /\ last.err = "nil"
    /\ CallHist.exp > 0
    /\ DefaultOf(CallHist) > CallHist.exp
    /\ CallStore.ttl > 0
    /\ CallRow.expires_at = now + CallHist.exp

\* C8: the default TTL applies to Set with TTL 0. On a store constructed with a
\* positive default d, the record of a Set(k, v, 0) carries the expiry instant
\* Set-time + d and an answered Get(k) returns no value once the clock has passed
\* it; on a store with no positive default the record carries no expiry.
C8_DefaultTTL ==
    /\ \A id \in DOMAIN tables, k \in Keys :
          (hist[id][k].kind = "set" /\ hist[id][k].exp = 0 /\ tables[id][k].present)
              => tables[id][k].expires_at =
                     IF DefaultOf(hist[id][k]) > 0
                     THEN hist[id][k].at + DefaultOf(hist[id][k])
                     ELSE NoTime
    /\ (last.op = "Get" /\ Answered /\ CallHist.kind = "set" /\ CallHist.exp = 0
            /\ DefaultOf(CallHist) > 0 /\ now > CallHist.at + DefaultOf(CallHist))
          => last.value = Nil

\* C9: a negative default TTL means no default. On a store constructed with
\* Expiration < 0 the record of a Set(k, v, 0) has no expires_at and no native
\* TTL and stays in the table, and every answered Get(k) returns v and a nil
\* error, until k is overwritten or deleted or the table reset.
C9_NegativeDefault ==
    /\ \A id \in DOMAIN tables, k \in Keys :
          (hist[id][k].kind = "set" /\ hist[id][k].exp = 0
                /\ DefaultOf(hist[id][k]) < 0)
              => /\ tables[id][k].present
                 /\ tables[id][k].value = hist[id][k].value
                 /\ tables[id][k].expires_at = NoTime
                 /\ tables[id][k].ttl_at = NoTime
    /\ (last.op = "Get" /\ Answered /\ CallHist.kind = "set" /\ CallHist.exp = 0
            /\ DefaultOf(CallHist) < 0)
          => (last.value = CallHist.value /\ last.err = "nil")

C9_Witness ==
    /\ last.op = "Get"
    /\ CallHist.kind = "set" /\ CallHist.exp = 0 /\ DefaultOf(CallHist) < 0
    /\ last.value = CallHist.value /\ last.value \in Values
    /\ last.err = "nil"
    /\ now >= 2

\* the expiry instant of the entry of history H: Set-time plus the call's
\* positive TTL, else plus the store's positive default; NoTime when its Set
\* asked for no expiry
DueAt(H) ==
    IF H.kind = "set" /\ Expiring(H.exp, DefaultOf(H))
    THEN H.at + (IF H.exp > 0 THEN H.exp ELSE DefaultOf(H))
    ELSE NoTime

\* C10: absent and error are distinct outcomes of Get. Get(k) returns no value
\* and a nil error exactly when the backend answered the read and k was never
\* set, was deleted (or the table reset or dropped) or has expired (at the expiry
\* instant itself either outcome is allowed); when the read fails Get returns a
\* non-nil error.
C10_AbsentOrError ==
    last.op = "Get"
        => LET H == CallHist
               absent == last.value = Nil /\ last.err = "nil"
           IN /\ (Answered /\ (H.kind # "set" \/ (DueAt(H) # NoTime /\ now > DueAt(H))))
                     => absent
              /\ absent
                     => (Answered /\ (H.kind # "set" \/ (DueAt(H) # NoTime /\ now >= DueAt(H))))
              /\ ~Answered => last.err # "nil"

\* the data table of the New that has just returned
NewTable == <<last.keyspace, last.table>>

\* C11: construction is atomic. New returns either an error and no handle, or a
\* nil error and a handle; a handle is returned only when every bootstrap step
\* has succeeded (both names valid, both sessions created, the keyspace and the
\* data table in place) and the store it names is Ready; a New that returns an
\* error adds no store, so every store a caller holds was Ready when handed out.
C11_AtomicConstruction ==
    /\ [](last.op = "New"
             => /\ (last.err # "nil") <=> (last.handle = 0)
                /\ last.handle # 0
                       => /\ last.handle = Len(stores)
                          /\ stores[last.handle].state = "Ready"
                          /\ stores[last.handle].keyspace = last.keyspace
                          /\ stores[last.handle].table = last.table
                          /\ WellFormed(last.keyspace) /\ WellFormed(last.table)
                          /\ last.keyspace \in keyspaces
                          /\ NewTable \in DOMAIN tables
                          /\ last.opened = 2)
    /\ [][(last'.op = "New" /\ last'.err # "nil") => stores' = stores]_vars
    /\ [](\A h \in Handles : stores[h].state \in {"Ready", "Closed"})

C11_Witness ==
    /\ last.op = "New"
    /\ last.failAt = "createTable"
    /\ last.err = "cassandra storage init"
    /\ last.opened = 2
    /\ last.handle = 0
    /\ stores = << >>
    /\ last.keyspace \in keyspaces

\* C12: store lifecycle. A handle is Ready when New returns it and Closed from
\* its Close on, for ever (a second Close included); and a Set, Get, Delete or
\* Reset called on a Closed store returns an error and no value, has read no
\* record and leaves every table as it was.
C12_Lifecycle ==
    /\ [](last.op = "Close" => CallStore.state = "Closed")
    /\ [][\A h \in Handles : stores[h].state = "Closed" => stores'[h].state = "Closed"]_vars
    /\ [][(/\ last'.op \in {"Set", "Get", "Delete", "Reset"}
            /\ stores[last'.h].state = "Closed")
              => /\ last'.err # "nil"
                 /\ last'.value = Nil
                 /\ last'.found = "none"
                 /\ tables' = tables
                 /\ hist' = hist]_vars

C12_Witness ==
    /\ last.op = "Get"
    /\ CallStore.state = "Closed"
    /\ last.err = "session closed"
    /\ CallRow.present
    /\ last.value = Nil

\* the New that has just returned found its keyspace and its data table in place
\* and was not asked to reset
OnExistingSchema ==
    /\ last'.op = "New"
    /\ ~last'.reset
    /\ last'.keyspace \in keyspaces
    /\ <<last'.keyspace, last'.table>> \in DOMAIN tables

\* C13: schema bootstrap is idempotent. A New (reset = false) on a cluster that
\* has the keyspace and the data table leaves keyspaces, tables and every stored
\* record as they were, issues no CREATE KEYSPACE (two queries: the count and
\* CREATE TABLE IF NOT EXISTS) and, unless the backend fails one of the steps it
\* runs, returns a handle and a nil error; and in every reachable cluster state
\* bootstrapping twice gives the schema that bootstrapping once gives.
C13_IdempotentBootstrap ==
    /\ [][OnExistingSchema
            => /\ keyspaces' = keyspaces
               /\ tables' = tables
               /\ hist' = hist
               /\ last'.failAt \in {"none", "createKeyspace", "dropData", "dropInfo"}
                      => /\ last'.err = "nil"
                         /\ last'.handle = Len(stores) + 1
                         /\ last'.queries = 2]_vars
    /\ [](\A table \in {TableName, OtherTable} :
             LET once == createOrVerifyKeySpace(KsName, table, FALSE, "none",
                                                keyspaces, tables, hist)
                 twice == createOrVerifyKeySpace(KsName, table, FALSE, "none",
                                                 once.keyspaces, once.tables, once.hist)
             IN /\ once.err = "nil" /\ twice.err = "nil"
                /\ twice.keyspaces = once.keyspaces
                /\ twice.tables = once.tables)

C13_Witness ==
    /\ last.op = "New"
    /\ last.handle = 2
    /\ ~last.reset
    /\ last.err = "nil"
    /\ last.queries = 2
    /\ TableOf(stores[1]) = NewTable
    /\ \E k \in Keys : tables[NewTable][k].present /\ hist[NewTable][k].h = 1

\* C14: lazy reap is best-effort. A Get that retrieved a record whose expires_at
\* is before the current instant has issued one Delete for its key and returns no
\* value and a nil error whether the Delete worked (the record is gone) or failed
\* (the record is still there, still expired: the Delete was not retried); a Get
\* that retrieved no record or a live one has issued no Delete.
C14_BestEffortReap ==
    last.op = "Get"
        => /\ last.found = "expired"
                => /\ last.value = Nil
                   /\ last.err = "nil"
                   /\ last.cleanup \in {"ok", "failed"}
                   /\ last.cleanup = "ok" => ~CallRow.present
                   /\ last.cleanup = "failed"
                          => (CallRow.present /\ CallRow.expires_at # NoTime
                                 /\ CallRow.expires_at < now)
           /\ last.found # "expired" => last.cleanup = "none"

C14_Witness ==
    /\ last.op = "Get"
    /\ last.found = "expired"
    /\ last.cleanup = "failed"
    /\ last.value = Nil
    /\ last.err = "nil"
    /\ CallRow.present

\* the table and the record under the key of the Get that is in flight
InflightTable == TableOf(stores[inflight.h])
InflightRow == tables[InflightTable][inflight.key]

\* C15: lazy reap never destroys a live write. Whatever Sets of other callers
\* come between the SELECT of a Get(k) and its cleanup Delete, the cleanup
\* leaves a record of k that is not expired as it is; and a Get(k) that found no
\* expired record returns the value of the last Set of k when that Set asked for
\* no expiry.
C15_ReapKeepsLiveWrite ==
    /\ [][(inflight.pc = "cleanup" /\ inflight'.pc = "idle")
            => ((InflightRow.present /\ ~Expired(InflightRow, now))
                   => tables'[InflightTable][inflight.key] = InflightRow)]_vars
    /\ []((last.op = "Get" /\ Answered /\ last.found # "expired"
             /\ CallHist.kind = "set"
             /\ ~Expiring(CallHist.exp, DefaultOf(CallHist)))
            => last.value = CallHist.value)

\* C16: Set is last-write-wins on value and expiry together. The record of a key
\* holds the value of the last Set of the key, and its expiry and native TTL are
\* those of that Set alone: Set-time + exp when that Set had exp > 0, none when it
\* asked for no expiry, whatever the record it replaced carried; in that last
\* case the record stays and every answered Get returns the value, also after the
\* expiry of the replaced record has passed.
C16_LastWriteWins ==
    /\ \A id \in DOMAIN tables, k \in Keys :
          LET H == hist[id][k]
              row == tables[id][k]
          IN H.kind = "set"
                => /\ row.present
                       => /\ row.value = H.value
                          /\ H.exp > 0 => row.expires_at = H.at + H.exp
                   /\ ~Expiring(H.exp, DefaultOf(H))
                       => /\ row.present
                          /\ row.expires_at = NoTime
                          /\ row.ttl_at = NoTime
    /\ (last.op = "Get" /\ Answered /\ CallHist.kind = "set"
            /\ ~Expiring(CallHist.exp, DefaultOf(CallHist)))
          => (last.value = CallHist.value /\ last.err = "nil")

C16_Witness ==
    /\ last.op = "Get"
    /\ CallHist.kind = "set"
    /\ ~Expiring(CallHist.exp, DefaultOf(CallHist))
    /\ CallHist.over # NoTime
    /\ now > CallHist.over
    /\ last.value = CallHist.value
    /\ last.value \in Values

\* C17: no early expiry. A record that carries an expires_at was written with a
\* native TTL directive, and the directive removes it no earlier than that
\* instant; so an answered Get(k) before Set-time + TTL of the last Set of k
\* returns its value.
C17_NoEarlyExpiry ==
    /\ \A id \in DOMAIN tables, k \in Keys :
          (tables[id][k].present /\ tables[id][k].expires_at # NoTime)
              => /\ tables[id][k].ttl_at # NoTime
                 /\ tables[id][k].ttl_at >= tables[id][k].expires_at
    /\ (last.op = "Get" /\ Answered /\ CallHist.kind = "set"
            /\ DueAt(CallHist) # NoTime /\ now < DueAt(CallHist))
          => last.value = CallHist.value

\* C18: Set with a negative TTL stores an entry that never expires. The record of
\* a Set(k, v, exp) with exp < 0 has no expires_at and no native TTL, on a store
\* with a positive default TTL too, and it stays: every answered Get(k) returns v
\* and a nil error until k is overwritten or deleted or the table reset.
C18_NegativeTTL ==
    /\ \A id \in DOMAIN tables, k \in Keys :
          (hist[id][k].kind = "set" /\ hist[id][k].exp < 0)
              => /\ tables[id][k].present
                 /\ tables[id][k].value = hist[id][k].value
                 /\ tables[id][k].expires_at = NoTime
                 /\ tables[id][k].ttl_at = NoTime
    /\ (last.op = "Get" /\ Answered /\ CallHist.kind = "set" /\ CallHist.exp < 0)
          => (last.value = CallHist.value /\ last.err = "nil")

C18_Witness ==
    /\ last.op = "Get"
    /\ CallHist.kind = "set" /\ CallHist.exp < 0
    /\ CallStore.ttl > 0
    /\ now >= CallStore.ttl * UnitsPerSec
    /\ last.value = CallHist.value /\ last.value \in Values
    /\ last.err = "nil"

\* the record of key k in table id, in the tables tbls (none if no such table)
Record(tbls, id, k) == IF id \in DOMAIN tbls THEN tbls[id][k] ELSE AbsentRow
AllTables == DOMAIN tables \cup DOMAIN tables'

\* the step is the call of handle last'.h that has just returned
OtherThanOwn(id, k) == id # TableOf(stores[last'.h]) \/ k # last'.key

\* C19: operations touch only their own key. A Set(k), a Delete(k) or a Get(k)
\* leaves the record (value, expires_at, native TTL) of every other key of its
\* table and every record of every other table as it was; a Get(k) that found no
\* record or a live one, or that failed, leaves every record as it was, and so
\* do List and Close; Reset changes the records of its own table only. Among
\* the operations of a store the records change by a Set, a Delete, a Reset or
\* a Get that found an expired record, and by nothing else; the other steps
\* that change a record are not operations of a store: the backend removing a
\* record whose native TTL has run out, and a New that drops the table.
C19_OwnKeyOnly ==
    [][/\ last'.op \in {"Set", "Get", "Delete"}
            => \A id \in AllTables, k \in Keys :
                  OtherThanOwn(id, k) => Record(tables', id, k) = Record(tables, id, k)
       /\ (last'.op = "Get" /\ last'.found # "expired") => tables' = tables
       /\ last'.op \in {"List", "Close"} => tables' = tables
       /\ last'.op = "Reset"
            => \A id \in AllTables, k \in Keys :
                  id # TableOf(stores[last'.h])
                      => Record(tables', id, k) = Record(tables, id, k)
       /\ (last'.op \in {"Set", "Delete", "Reset"} /\ last'.err # "nil")
            => tables' = tables
       /\ (\E id \in AllTables, k \in Keys :
               Record(tables', id, k) # Record(tables, id, k))
            => \/ last'.op \in {"Set", "Delete", "Reset"}
               \/ last'.op = "Get" /\ last'.found = "expired"
               \/ last'.op = "New" /\ last'.reset
               \/ /\ last'.op = "none"
                  /\ \A id \in AllTables, k \in Keys :
                        Record(tables', id, k) # Record(tables, id, k)
                            => /\ Record(tables', id, k) = AbsentRow
                               /\ Record(tables, id, k).ttl_at # NoTime
                               /\ Record(tables, id, k).ttl_at <= now]_vars

C19_Witness ==
    /\ last.op = "Delete"
    /\ last.found = "live"
    /\ last.err = "nil"
    /\ \E k \in Keys \ {last.key} :
          /\ tables[CallTable][k].present
          /\ tables[CallTable][k].expires_at # NoTime
          /\ hist[CallTable][k].kind = "set"

\* C20: a failed construction leaves no open session. When New returns an error,
\* every session created during that New (the system-keyspace session, the
\* session of the target keyspace) has been closed.
C20_NoSessionLeft ==
    (last.op = "New" /\ last.err # "nil") => last.closed = last.opened
====
